---- MODULE Spec2Model ----
(***************************************************************************)
(* The camera actor of src-tauri/src/camera.rs: the registry slot          *)
(* CameraState.sender behind its mutex, the facade commands start_camera,  *)
(* stop_camera, get_camera_status, capture_frame and get_preview_frame,    *)
(* the mpsc command queue, the per-call reply channels, and the loop of    *)
(* camera_thread that owns the Option<Camera> slot.                        *)
(*                                                                         *)
(* Assumptions of the model: thread::spawn succeeds, and the device library *)
(* returns from every call with Ok or Err.  SpawnFailSpec drops the first  *)
(* assumption: there thread::spawn may panic inside get_or_create_sender,  *)
(* which poisons the mutex and makes every later lock() fail.  PanicSpec   *)
(* drops the second: there a call into the library may panic, which ends the *)
(* worker thread, which unwinds in steps: the match arm with the reply     *)
(* Sender, then the camera slot, then the Receiver.  CameraState lives as  *)
(* long as the process in Spec; ShutdownSpec adds its drop, after which    *)
(* recv() fails and the thread runs its cleanup and returns.               *)
(***************************************************************************)
EXTENDS Integers, Sequences, FiniteSets, TLC

\* ------------------------------------------------------------ bounds
\* front-end threads that make facade calls, one call at a time each
NCallers == 2
\* facade calls made in a run, over all callers
MaxCmds == 3

Callers == 1..NCallers
CmdIds == 1..MaxCmds
\* every call may create at most one channel, so MaxCmds channels suffice
Chans == 1..MaxCmds

\* ------------------------------------------------------------ values
\* Option<T>: None is the empty sequence, Some(x) the one-element sequence
None == <<>>
Some(x) == <<x>>
IsSome(o) == o /= None
Unwrap(o) == o[1]

\* Result<T, String>
Ok(v) == [ok |-> TRUE, val |-> v]
Err(m) == [ok |-> FALSE, val |-> m]
Unit == "()"

\* u32 (camera.rs:66 parses the identifier into a u32): u32::MAX is
\* 4294967295, kept as its quotient and remainder by ten
U32MaxDiv10 == 429496729
U32MaxMod10 == 5

\* Values the front-end passes as device_id, strings as sequences of
\* characters: no identifier (index 0) and the identifier of device 1
DeviceIdInputs == {None, Some(<<"1">>)}
QualityInputs == {None, Some(60)}

Digits == {"0", "1", "2", "3", "4", "5", "6", "7", "8", "9"}
DigitVal(ch) ==
  CASE ch = "0" -> 0 [] ch = "1" -> 1 [] ch = "2" -> 2 [] ch = "3" -> 3
    [] ch = "4" -> 4 [] ch = "5" -> 5 [] ch = "6" -> 6 [] ch = "7" -> 7
    [] ch = "8" -> 8 [] ch = "9" -> 9

RECURSIVE DigitsValue(_, _)
\* value of a digit string, or -1 once it leaves the u32 range (checked_mul,
\* checked_add of the parser)
DigitsValue(s, acc) ==
  IF s = <<>> THEN acc
  ELSE LET d == DigitVal(Head(s))
       IN IF acc > U32MaxDiv10 \/ (acc = U32MaxDiv10 /\ d > U32MaxMod10)
          THEN -1
          ELSE DigitsValue(Tail(s), acc * 10 + d)

\* mutant: characters that are not digits are skipped
ParseU32_Lenient(s) ==
  LET body == SelectSeq(s, LAMBDA ch : ch \in Digits)
  IN IF body = <<>>
     THEN None
     ELSE LET v == DigitsValue(body, 0)
          IN IF v < 0 THEN None ELSE Some(v)

\* str::parse::<u32>(): an optional leading '+', then one or more decimal
\* digits, within range; anything else is an error (None here)
ParseU32(s) ==
  LET body == IF s /= <<>> /\ Head(s) = "+" THEN Tail(s) ELSE s
  IN IF body = <<>> \/ \E i \in 1..Len(body) : body[i] \notin Digits
     THEN None
     ELSE LET v == DigitsValue(body, 0)
          IN IF v < 0 THEN None ELSE Some(v)

\* camera.rs:64-70: the CameraIndex a Start command selects
SelectIndex(device_id) ==
  IF IsSome(device_id)
  THEN LET p == ParseU32(Unwrap(device_id))
       IN IF IsSome(p) THEN Unwrap(p) ELSE 0
  ELSE 0

\* what the device reports about itself (cam.info().human_name(), cam.resolution())
HumanName(idx) == <<"camera", idx>>
ResolutionOf(idx) == IF idx = 0 THEN <<1920, 1080>> ELSE <<1280, 720>>

\* mutant: the status is built without the resolution
ActiveStatus_NoResolution(cam) ==
  [is_active |-> TRUE, device_name |-> Some(HumanName(cam.idx)), resolution |-> None]

\* camera.rs:82-89: the status a successful Start builds from the new camera
ActiveStatus(cam) ==
  [is_active |-> TRUE,
   device_name |-> Some(HumanName(cam.idx)),
   resolution |-> Some(ResolutionOf(cam.idx))]

\* camera.rs:133-147: the status GetStatus builds from the slot
StatusOf(slot) ==
  IF IsSome(slot)
  THEN [is_active |-> TRUE,
        device_name |-> Some(HumanName(Unwrap(slot).idx)),
        resolution |-> Some(ResolutionOf(Unwrap(slot).idx))]
  ELSE [is_active |-> FALSE, device_name |-> None, resolution |-> None]

\* camera.rs:244
DefaultQuality == 90
PreviewQuality == 60

\* camera.rs:123-124: the data URL of an encoded frame
DataUrl(cam, quality) == <<"data:image/jpeg;base64,", cam.idx, quality>>

Command(kind, device_id, quality) ==
  [kind |-> kind, device_id |-> device_id, quality |-> quality]

\* ------------------------------------------------------------ state
VARIABLES
  lock,      \* the mutex of CameraState.sender: its holder, 0 when free, or Poisoned
  sender,    \* CameraState.sender: Option<Sender<CameraCommand>>, a channel id
  nchan,     \* command channels created so far, one worker thread spawned per channel
  queue,     \* per channel: the commands sent and not yet received
  caller,    \* per caller thread: its position in the facade call and its locals
  reply,     \* per command: the state of its reply channel and the value in it
  ncalls,    \* facade calls entered so far
  nsent,     \* commands enqueued so far; command i is the i-th one enqueued
  worker,    \* per channel: the camera_thread that owns its receiver
  nbegun,    \* history: commands dequeued so far
  ndone,     \* history: commands handled to their reply so far
  lastChange, \* history: the record of the Start or Stop handled most recently
  live       \* the CameraState exists: the application has not dropped it

vars == <<lock, sender, nchan, queue, caller, reply, ncalls, nsent, worker, nbegun,
          ndone, lastChange, live>>

\* a caller outside any facade call; tx is the sender get_or_create_sender
\* returned to it, id the command it sent and waits for
IdleCaller == [pc |-> "idle", tx |-> None, id |-> 0]

\* camera.rs:53: a thread not yet spawned has pc "unborn"
FreshWorker ==
  [pc |-> "unborn", cur |-> None, camera |-> None, cam |-> None,
   result |-> None, pre |-> None, ops |-> <<>>]

\* a reply channel: st is "none" before the call creates it, "empty" until the
\* worker sends, "full" once it holds the result, "dropped" once the caller
\* gave up and dropped the receiver, "closed" when both ends are gone; kind is
\* the command it belongs to, which fixes the type of the result it carries
NoReply == [st |-> "none", kind |-> "", val |-> None]
ClosedReply == [st |-> "closed", kind |-> "", val |-> None]

Init ==
  /\ lock = 0
  /\ sender = None
  /\ nchan = 0
  /\ queue = [ch \in Chans |-> <<>>]
  /\ caller = [c \in Callers |-> IdleCaller]
  /\ reply = [i \in CmdIds |-> NoReply]
  /\ ncalls = 0
  /\ nsent = 0
  /\ worker = [ch \in Chans |-> FreshWorker]
  /\ nbegun = 0
  /\ ndone = 0
  /\ lastChange = None
  /\ live = TRUE

\* ------------------------------------------------------------ facade
\* camera.rs:200, 215, 228, 241: a front-end thread enters one of the facade
\* commands, calls get_or_create_sender and reaches its lock().  The four
\* commands run the same code up to their send, so which of them the thread
\* is in, and with which arguments, is recorded at the send.  The threads
\* are interchangeable: a call is taken by the lowest-numbered idle one.
EnterFacade(c) ==
  /\ live
  /\ caller[c].pc = "idle"
  /\ \A d \in Callers : d < c => caller[d].pc /= "idle"
  /\ ncalls < MaxCmds
  /\ ncalls' = ncalls + 1
  /\ caller' = [caller EXCEPT ![c].pc = "lock"]
  /\ UNCHANGED <<lock, sender, nchan, queue, reply, nsent, worker, nbegun, ndone,
                 lastChange, live>>

\* std::sync::Mutex: a thread that panics while it holds the guard leaves
\* the mutex unlocked and poisoned, for good
Poisoned == -1

\* camera.rs:161: Mutex::lock blocks until no thread holds the guard
MutexAvailable == lock = 0

\* Mutex::lock: the guard, or a PoisonError when the mutex is poisoned
LockResult(l) ==
  IF l = Poisoned THEN Err("poisoned lock: another task failed inside") ELSE Ok(Unit)

\* camera.rs:161: map_err of the lock
OnLockError(e) == Err("Lock error: " \o e)

\* camera.rs:161 and 200 (215, 228, 241): what the `?` after lock() and the
\* `?` after get_or_create_sender return from the facade call, None when the
\* call goes on with the guard
LockOutcome ==
  LET r == LockResult(lock)
  IN IF r.ok THEN None ELSE Some(OnLockError(r.val))

\* mutant: the slot is not looked at, every call spawns
NeedsSpawn_Always(slot) == TRUE

\* camera.rs:163
NeedsSpawn(slot) == slot = None

\* camera.rs:161-163: take the guard and test the slot; on a poisoned mutex
\* the guard inside the PoisonError is dropped by map_err and the facade call
\* returns the lock error
AcquireLock(c) ==
  /\ caller[c].pc = "lock"
  /\ IF IsSome(LockOutcome)
     THEN /\ lock' = lock
          /\ caller' = [caller EXCEPT ![c] = IdleCaller]
     ELSE /\ MutexAvailable
          /\ lock' = c
          /\ caller' = [caller EXCEPT ![c].pc =
                          IF NeedsSpawn(sender) THEN "create" ELSE "clone"]
  /\ UNCHANGED <<sender, nchan, queue, reply, ncalls, nsent, worker, nbegun, ndone, lastChange, live>>

\* camera.rs:164-166: mpsc::channel(), thread::spawn(camera_thread(rx)), store tx
SpawnWorker(c) ==
  /\ caller[c].pc = "create"
  /\ nchan' = nchan + 1
  /\ worker' = [worker EXCEPT ![nchan + 1].pc = "recv"]
  /\ sender' = Some(nchan + 1)
  /\ caller' = [caller EXCEPT ![c].pc = "clone"]
  /\ UNCHANGED <<lock, queue, reply, ncalls, nsent, nbegun, ndone, lastChange, live>>

\* camera.rs:164-165: thread::spawn panics when the OS refuses the thread.
\* The closure with rx, then tx, then the guard are dropped by the unwinding:
\* no channel is left, the slot stays None, the mutex is poisoned, and the
\* facade call ends by the panic instead of a Result.
SpawnPanics(c) ==
  /\ caller[c].pc = "create"
  /\ lock' = Poisoned
  /\ caller' = [caller EXCEPT ![c].pc = "panicked"]
  /\ UNCHANGED <<sender, nchan, queue, reply, ncalls, nsent, worker, nbegun, ndone,
                 lastChange, live>>

\* mutant: take() instead of clone(): the sender is moved out of the slot
CloneSender_Take(c) ==
  /\ caller[c].pc = "clone"
  /\ caller' = [caller EXCEPT ![c].pc = "send", ![c].tx = sender]
  /\ sender' = None
  /\ lock' = 0
  /\ UNCHANGED <<nchan, queue, reply, ncalls, nsent, worker, nbegun, ndone, lastChange, live>>

\* camera.rs:169-170: clone the stored sender, drop the guard
CloneSender(c) ==
  /\ caller[c].pc = "clone"
  /\ caller' = [caller EXCEPT ![c].pc = "send", ![c].tx = sender]
  /\ lock' = 0
  /\ UNCHANGED <<sender, nchan, queue, reply, ncalls, nsent, worker, nbegun, ndone, lastChange, live>>

\* mutant: the command is put at the head of the queue
Enqueue_Front(q, m) == <<m>> \o q

\* mpsc::Sender::send appends at the tail of the queue
Enqueue(q, m) == Append(q, m)

\* mutant: a send to a channel whose receiver is gone is not refused
ReceiverAlive_Always(w) == TRUE

\* the Receiver of a command channel is a parameter of camera_thread: it lives
\* until the thread has returned or has unwound to its outermost frame
ReceiverAlive(w) == w.pc \notin {"dead", "exited"}

\* mpsc::Sender::send: Ok unless the receiver is gone
SendResult(alive) ==
  IF alive THEN Ok(Unit) ELSE Err("sending on a closed channel")

\* camera.rs:204 (219, 232, 247): map_err of the send
OnSendError(e) == Err("Failed to send command: " \o e)

\* camera.rs:203-204: what the `?` after the send returns from the facade
\* call, None when the call goes on to its wait
SendOutcome(c) ==
  LET r == SendResult(ReceiverAlive(worker[Unwrap(caller[c].tx)]))
  IN IF r.ok THEN None ELSE Some(OnSendError(r.val))

\* camera.rs:201-204 (and 216-219, 229-232, 242-247): a fresh reply channel,
\* then send the command with its Sender end.  The command's id is its
\* position in enqueue order and names its reply channel.
SendCommand(c, cmd) ==
  /\ caller[c].pc = "send"
  /\ SendOutcome(c) = None
  /\ nsent' = nsent + 1
  /\ queue' = [queue EXCEPT ![Unwrap(caller[c].tx)] =
                 Enqueue(@, [id |-> nsent + 1, kind |-> cmd.kind,
                             device_id |-> cmd.device_id, quality |-> cmd.quality])]
  /\ reply' = [reply EXCEPT ![nsent + 1] = [st |-> "empty", kind |-> cmd.kind, val |-> None]]
  /\ caller' = [caller EXCEPT ![c].pc = "wait", ![c].id = nsent + 1]
  /\ UNCHANGED <<lock, sender, nchan, ncalls, worker, nbegun, ndone, lastChange, live>>

\* camera.rs:194-204
start_camera(c, device_id) == SendCommand(c, Command("Start", device_id, None))

\* camera.rs:212-219
stop_camera(c) == SendCommand(c, Command("Stop", None, None))

\* camera.rs:227-232
get_camera_status(c) == SendCommand(c, Command("GetStatus", None, None))

\* camera.rs:244: quality.unwrap_or(90)
QualityOrDefault(quality) == IF IsSome(quality) THEN Unwrap(quality) ELSE DefaultQuality

\* camera.rs:240-247
capture_frame(c, quality) ==
  SendCommand(c, Command("Capture", None, Some(QualityOrDefault(quality))))

\* camera.rs:255-256
get_preview_frame(c) == capture_frame(c, Some(PreviewQuality))

\* mutant: one reply channel shared by all calls: a waiting caller takes
\* whichever result is there
ReceiveReply_Any(c) ==
  /\ caller[c].pc = "wait"
  /\ \E i \in CmdIds :
       /\ reply[i].st = "full"
       /\ reply' = [reply EXCEPT ![i] = ClosedReply]
  /\ caller' = [caller EXCEPT ![c] = IdleCaller]
  /\ UNCHANGED <<lock, sender, nchan, queue, ncalls, nsent, worker, nbegun, ndone,
                 lastChange, live>>

\* camera.rs:206-207: recv_timeout returns the reply that arrived; the call
\* returns it
ReceiveReply(c) ==
  /\ caller[c].pc = "wait"
  /\ reply[caller[c].id].st = "full"
  /\ caller' = [caller EXCEPT ![c] = IdleCaller]
  /\ reply' = [reply EXCEPT ![caller[c].id] = ClosedReply]
  /\ UNCHANGED <<lock, sender, nchan, queue, ncalls, nsent, worker, nbegun, ndone,
                 lastChange, live>>

\* mutant: recv() instead of recv_timeout(): the call has no way out of its
\* wait but the reply
ReplyTimeout_Never(c) ==
  /\ caller[c].pc = "wait"
  /\ reply[caller[c].id].st = "empty"
  /\ FALSE
  /\ UNCHANGED vars

\* camera.rs:206-207: no reply within the bound; the call returns the timeout
\* error and reply_rx is dropped
ReplyTimeout(c) ==
  /\ caller[c].pc = "wait"
  /\ reply[caller[c].id].st = "empty"
  /\ caller' = [caller EXCEPT ![c] = IdleCaller]
  /\ reply' = [reply EXCEPT ![caller[c].id].st = "dropped"]
  /\ UNCHANGED <<lock, sender, nchan, queue, ncalls, nsent, worker, nbegun, ndone,
                 lastChange, live>>

\* camera.rs:203-204: the send fails, the command and both ends of its reply
\* channel are dropped, the call returns the error
SendFails(c) ==
  /\ caller[c].pc = "send"
  /\ IsSome(SendOutcome(c))
  /\ caller' = [caller EXCEPT ![c] = IdleCaller]
  /\ UNCHANGED <<lock, sender, nchan, queue, reply, ncalls, nsent, worker, nbegun, ndone,
                 lastChange, live>>

\* mpsc::Receiver::recv_timeout: the value if there is one, Disconnected if
\* there is none and the Sender is gone, Timeout if the bound passes first
RecvTimeoutResult(r) ==
  CASE r.st = "full" -> Ok(r.val)
    [] r.st = "empty" -> Err("timed out waiting on channel")
    [] r.st = "hungup" -> Err("channel is empty and sending half is closed")

\* camera.rs:207 (222, 235, 250): map_err of the receive
OnRecvError(e) == Err("Camera command timeout: " \o e)

\* camera.rs:206-207: what the facade call returns from its wait: the worker's
\* result, or the mapped error of recv_timeout
WaitOutcome(c) ==
  LET r == RecvTimeoutResult(reply[caller[c].id])
  IN IF r.ok THEN r.val ELSE OnRecvError(r.val)

\* camera.rs:206-207: the Sender of the reply channel was dropped without a
\* send; recv_timeout returns at once and the call returns the mapped error
ReplyHungUp(c) ==
  /\ caller[c].pc = "wait"
  /\ reply[caller[c].id].st = "hungup"
  /\ caller' = [caller EXCEPT ![c] = IdleCaller]
  /\ reply' = [reply EXCEPT ![caller[c].id] = ClosedReply]
  /\ UNCHANGED <<lock, sender, nchan, queue, ncalls, nsent, worker, nbegun, ndone,
                 lastChange, live>>

\* ------------------------------------------------------------ camera_thread
\* a Camera value: the index it was created for, the Start command that
\* created it, and whether its stream is open
Handle(idx, by) == [idx |-> idx, by |-> by, streaming |-> FALSE]

\* mutant: the newest command is handed out
NextCommand_Newest(q) == q[Len(q)]

\* camera.rs:55: recv() hands out the oldest command of the queue
NextCommand(q) == Head(q)
RestOfQueue(q) == Tail(q)

\* mutant: commands are taken by a handler that does not wait for the
\* previous one to end
AtRecv_Anytime(w) == w.pc /= "unborn"

\* camera.rs:55: the loop is back at recv() only after the previous match arm ended
AtRecv(w) == w.pc = "recv"

\* camera.rs:56: the match on the command
FirstStep(kind) ==
  CASE kind = "Start" -> "start_take"
    [] kind = "Stop" -> "stop_take"
    [] kind = "Capture" -> "capture_frame"
    [] kind = "GetStatus" -> "get_status"

\* camera.rs:55-56
Receive(ch) ==
  /\ AtRecv(worker[ch])
  /\ queue[ch] /= <<>>
  /\ LET cmd == NextCommand(queue[ch])
     IN worker' = [worker EXCEPT ![ch] =
                     [@ EXCEPT !.pc = FirstStep(cmd.kind), !.cur = Some(cmd),
                               !.pre = worker[ch].camera, !.ops = <<>>, !.result = None]]
  /\ queue' = [queue EXCEPT ![ch] = RestOfQueue(@)]
  /\ nbegun' = nbegun + 1
  /\ UNCHANGED <<lock, sender, nchan, caller, reply, ncalls, nsent, ndone, lastChange, live>>

\* mutant: as_mut() instead of take(): the stream is stopped, the camera
\* stays in the slot
TakeAndStop_KeepInSlot(w, stopped) ==
  IF IsSome(w.camera)
  THEN [w EXCEPT !.ops = Append(@, <<"stop_stream", Unwrap(w.camera).by, stopped>>)]
  ELSE w

\* mutant: the camera in the slot is left alone, to be overwritten by the
\* new one
TakeAndStop_Skip(w, stopped) == w

\* camera.rs:59-61 and 99-101: take the camera out of the slot, stop its stream
\* (the outcome `stopped` of stop_stream is discarded), drop it
TakeAndStop(w, stopped) ==
  IF IsSome(w.camera)
  THEN [w EXCEPT !.camera = None,
                 !.ops = @ \o << <<"stop_stream", Unwrap(w.camera).by, stopped>>,
                                 <<"drop", Unwrap(w.camera).by>> >>]
  ELSE w

\* camera.rs:57-61
StartTake(ch) ==
  /\ worker[ch].pc = "start_take"
  /\ \E stopped \in BOOLEAN :
       /\ IsSome(worker[ch].camera) \/ stopped
       /\ worker' = [worker EXCEPT ![ch] =
                       [TakeAndStop(@, stopped) EXCEPT !.pc = "start_new"]]
  /\ UNCHANGED <<lock, sender, nchan, queue, caller, reply, ncalls, nsent, nbegun, ndone,
                 lastChange, live>>

\* camera.rs:64-77: Camera::new(index, requested) succeeded or failed
CameraNew(w, created) ==
  LET cmd == Unwrap(w.cur)
      idx == SelectIndex(cmd.device_id)
  IN IF created
     THEN [w EXCEPT !.pc = "start_open", !.cam = Some(Handle(idx, cmd.id)),
                    !.ops = Append(@, <<"new", cmd.id>>)]
     ELSE [w EXCEPT !.pc = "reply", !.result = Some(Err("Failed to create camera")),
                    !.ops = Append(@, <<"new_failed", cmd.id>>)]

StartNew(ch) ==
  /\ worker[ch].pc = "start_new"
  /\ \E created \in BOOLEAN :
       worker' = [worker EXCEPT ![ch] = CameraNew(@, created)]
  /\ UNCHANGED <<lock, sender, nchan, queue, caller, reply, ncalls, nsent, nbegun, ndone,
                 lastChange, live>>

\* mutant: the statement camera = Some(cam) is missing
OpenAndStore_NoStore(w, opened) ==
  LET cam == [Unwrap(w.cam) EXCEPT !.streaming = TRUE]
  IN IF opened
     THEN [w EXCEPT !.pc = "reply", !.cam = None,
                    !.result = Some(Ok(ActiveStatus(cam))),
                    !.ops = @ \o << <<"open_stream", cam.by>>, <<"drop", cam.by>> >>]
     ELSE [w EXCEPT !.pc = "reply", !.cam = None,
                    !.result = Some(Err("Failed to open camera stream")),
                    !.ops = @ \o << <<"open_failed", cam.by>>, <<"drop", cam.by>> >>]

\* mutant: the camera is stored in the slot before its stream is opened
OpenAndStore_StoreFirst(w, opened) ==
  LET cam == [Unwrap(w.cam) EXCEPT !.streaming = opened]
  IN IF opened
     THEN [w EXCEPT !.pc = "reply", !.cam = None, !.camera = Some(cam),
                    !.result = Some(Ok(ActiveStatus(cam))),
                    !.ops = Append(@, <<"open_stream", cam.by>>)]
     ELSE [w EXCEPT !.pc = "reply", !.cam = None, !.camera = Some(cam),
                    !.result = Some(Err("Failed to open camera stream")),
                    !.ops = Append(@, <<"open_failed", cam.by>>)]

\* camera.rs:79-92: open_stream(); on success build the status and store the
\* camera in the slot; on failure the new camera is dropped
OpenAndStore(w, opened) ==
  LET cam == [Unwrap(w.cam) EXCEPT !.streaming = TRUE]
  IN IF opened
     THEN [w EXCEPT !.pc = "reply", !.cam = None, !.camera = Some(cam),
                    !.result = Some(Ok(ActiveStatus(cam))),
                    !.ops = Append(@, <<"open_stream", cam.by>>)]
     ELSE [w EXCEPT !.pc = "reply", !.cam = None,
                    !.result = Some(Err("Failed to open camera stream")),
                    !.ops = @ \o << <<"open_failed", cam.by>>, <<"drop", cam.by>> >>]

StartOpen(ch) ==
  /\ worker[ch].pc = "start_open"
  /\ \E opened \in BOOLEAN :
       worker' = [worker EXCEPT ![ch] = OpenAndStore(@, opened)]
  /\ UNCHANGED <<lock, sender, nchan, queue, caller, reply, ncalls, nsent, nbegun, ndone,
                 lastChange, live>>

\* mutant: the error of stop_stream is returned to the caller
StopCamera_Propagate(w, stopped) ==
  [TakeAndStop(w, stopped) EXCEPT
     !.pc = "reply",
     !.result = IF stopped THEN Some(Ok(Unit)) ELSE Some(Err("Failed to stop camera"))]

\* camera.rs:98-102 up to the send: the result is Ok(()) whatever stop_stream
\* returned
StopCamera(w, stopped) ==
  [TakeAndStop(w, stopped) EXCEPT !.pc = "reply", !.result = Some(Ok(Unit))]

StopTake(ch) ==
  /\ worker[ch].pc = "stop_take"
  /\ \E stopped \in BOOLEAN :
       /\ IsSome(worker[ch].camera) \/ stopped
       /\ worker' = [worker EXCEPT ![ch] = StopCamera(@, stopped)]
  /\ UNCHANGED <<lock, sender, nchan, queue, caller, reply, ncalls, nsent, nbegun, ndone,
                 lastChange, live>>

\* mutant: the frame is requested without looking at the slot first
AcquireFrame_NoCheck(w, got) ==
  IF ~IsSome(w.camera)
  THEN [w EXCEPT !.pc = "reply", !.result = Some(Err("Failed to capture frame")),
                 !.ops = Append(@, <<"frame_failed", 0>>)]
  ELSE IF got
  THEN [w EXCEPT !.pc = "capture_encode",
                 !.ops = Append(@, <<"frame", Unwrap(w.camera).by>>)]
  ELSE [w EXCEPT !.pc = "reply", !.result = Some(Err("Failed to capture frame")),
                 !.ops = Append(@, <<"frame_failed", Unwrap(w.camera).by>>)]

\* mutant: a frame that cannot be acquired closes the camera
AcquireFrame_CloseOnFail(w, got) ==
  IF ~IsSome(w.camera)
  THEN [w EXCEPT !.pc = "reply", !.result = Some(Err("Camera not started"))]
  ELSE IF got
  THEN [w EXCEPT !.pc = "capture_encode",
                 !.ops = Append(@, <<"frame", Unwrap(w.camera).by>>)]
  ELSE [w EXCEPT !.pc = "reply", !.result = Some(Err("Failed to capture frame")),
                 !.camera = None,
                 !.ops = Append(@, <<"frame_failed", Unwrap(w.camera).by>>)]

\* camera.rs:107-111: camera.as_mut() or the not-started error, then cam.frame()
AcquireFrame(w, got) ==
  IF ~IsSome(w.camera)
  THEN [w EXCEPT !.pc = "reply", !.result = Some(Err("Camera not started"))]
  ELSE IF got
  THEN [w EXCEPT !.pc = "capture_encode",
                 !.ops = Append(@, <<"frame", Unwrap(w.camera).by>>)]
  ELSE [w EXCEPT !.pc = "reply", !.result = Some(Err("Failed to capture frame")),
                 !.ops = Append(@, <<"frame_failed", Unwrap(w.camera).by>>)]

CaptureFrame(ch) ==
  /\ worker[ch].pc = "capture_frame"
  /\ \E got \in BOOLEAN :
       /\ IsSome(worker[ch].camera) \/ got
       /\ worker' = [worker EXCEPT ![ch] = AcquireFrame(@, got)]
  /\ UNCHANGED <<lock, sender, nchan, queue, caller, reply, ncalls, nsent, nbegun, ndone,
                 lastChange, live>>

\* camera.rs:114-126: decode the frame to RGB, JPEG-encode it at the
\* command's quality, base64, data URL; both conversions are computations on
\* the frame already acquired, and either may fail
EncodeFrame(w, outcome) ==
  CASE outcome = "decode_failed" ->
         [w EXCEPT !.pc = "reply", !.result = Some(Err("Failed to decode frame")),
                   !.ops = Append(@, <<"decode_failed">>)]
    [] outcome = "encode_failed" ->
         [w EXCEPT !.pc = "reply", !.result = Some(Err("Failed to encode JPEG")),
                   !.ops = @ \o << <<"decode">>, <<"encode_failed">> >>]
    [] outcome = "encoded" ->
         [w EXCEPT !.pc = "reply",
                   !.result = Some(Ok(DataUrl(Unwrap(w.camera), Unwrap(Unwrap(w.cur).quality)))),
                   !.ops = @ \o << <<"decode">>, <<"encode">> >>]

CaptureEncode(ch) ==
  /\ worker[ch].pc = "capture_encode"
  /\ \E outcome \in {"decode_failed", "encode_failed", "encoded"} :
       worker' = [worker EXCEPT ![ch] = EncodeFrame(@, outcome)]
  /\ UNCHANGED <<lock, sender, nchan, queue, caller, reply, ncalls, nsent, nbegun, ndone,
                 lastChange, live>>

\* mutant: the status is built from the camera taken out of the slot
ReadStatus_Take(w) ==
  [w EXCEPT !.pc = "reply", !.result = Some(Ok(StatusOf(w.camera))), !.camera = None]

\* camera.rs:132-147
ReadStatus(w) ==
  [w EXCEPT !.pc = "reply", !.result = Some(Ok(StatusOf(w.camera)))]

GetStatus(ch) ==
  /\ worker[ch].pc = "get_status"
  /\ worker' = [worker EXCEPT ![ch] = ReadStatus(@)]
  /\ UNCHANGED <<lock, sender, nchan, queue, caller, reply, ncalls, nsent, nbegun, ndone,
                 lastChange, live>>

\* Sender::send on a reply channel: the value is stored unless the receiver
\* was dropped, in which case send returns Err, which .ok() discards
Deliver(r, v) ==
  IF r.st = "dropped" THEN ClosedReply ELSE [r EXCEPT !.st = "full", !.val = v]

\* history record of the Start or Stop a worker has handled up to its reply:
\* the index of the camera that was open when it was dequeued, the slot as it
\* leaves it, whether it succeeded, the status a successful Start returns, and
\* whether the reply found its receiver dropped
Handled(w, lost) ==
  [kind |-> Unwrap(w.cur).kind,
   prior |-> IF IsSome(w.pre) THEN Some(Unwrap(w.pre).idx) ELSE None,
   post |-> w.camera,
   ok |-> Unwrap(w.result).ok,
   status |-> IF Unwrap(w.cur).kind = "Start" /\ Unwrap(w.result).ok
              THEN Some(Unwrap(w.result).val) ELSE None,
   lost |-> lost]

\* mutant: a reply that cannot be delivered undoes the command: the camera
\* is closed again
AfterReply_Rollback(w, delivered) ==
  [w EXCEPT !.pc = "recv", !.cur = None, !.result = None, !.pre = None, !.ops = <<>>,
            !.camera = IF delivered THEN @ ELSE None]

\* mutant: the loop is left when a command failed or its reply could not be
\* delivered
AfterReply_ExitOnError(w, delivered) ==
  [w EXCEPT !.pc = IF delivered /\ Unwrap(w.result).ok THEN "recv" ELSE "exited",
            !.cur = None, !.result = None, !.pre = None, !.ops = <<>>]

\* camera.rs:95-96, 102-103, 129-130, 148-149: .ok() discards the outcome
\* `delivered` of the send; the match arm ends and the loop is back at recv()
AfterReply(w, delivered) ==
  [w EXCEPT !.pc = "recv", !.cur = None, !.result = None, !.pre = None, !.ops = <<>>]

\* camera.rs:95, 102, 129, 148: reply.send(result).ok()
SendReply(ch) ==
  /\ worker[ch].pc = "reply"
  /\ LET w == worker[ch]
         cmd == Unwrap(w.cur)
         lost == reply[cmd.id].st = "dropped"
     IN /\ reply' = [reply EXCEPT ![cmd.id] = Deliver(@, Unwrap(w.result))]
        /\ ndone' = ndone + 1
        /\ lastChange' = IF cmd.kind \in {"Start", "Stop"}
                         THEN Some(Handled(w, lost))
                         ELSE lastChange
        /\ worker' = [worker EXCEPT ![ch] = AfterReply(w, ~lost)]
  /\ UNCHANGED <<lock, sender, nchan, queue, caller, ncalls, nsent, nbegun, live>>

\* a Sender of a reply channel is dropped without a send: a receiver that
\* still waits finds the channel disconnected
HangUp(r) ==
  CASE r.st = "empty" -> [r EXCEPT !.st = "hungup"]
    [] r.st = "dropped" -> ClosedReply
    [] OTHER -> r

\* a call into the device or image library panics (camera.rs:60, 76, 79, 82,
\* 83, 100, 110, 114, 120, 135, 138) and camera_thread unwinds, innermost
\* frame first.  First the match arm: the camera the arm holds in a local
\* (the one taken out of the slot at 59 or 99, or the new one of 76) is
\* dropped, then the command's reply Sender, so that a caller still waiting
\* on it finds the channel disconnected.  The slot and the Receiver are
\* still there and commands can still be sent.
WorkerPanic(ch) ==
  /\ \/ worker[ch].pc \in {"start_new", "start_open", "capture_encode"}
     \/ /\ worker[ch].pc \in {"start_take", "stop_take", "capture_frame", "get_status"}
        /\ IsSome(worker[ch].camera)
  /\ LET w == worker[ch]
         taken == w.pc \in {"start_take", "stop_take"}
         local == IF taken THEN w.camera ELSE w.cam
     IN worker' = [worker EXCEPT ![ch] =
                     [w EXCEPT !.pc = "unwind_camera", !.cur = None, !.cam = None,
                               !.camera = IF taken THEN None ELSE @,
                               !.result = None, !.pre = None,
                               !.ops = IF IsSome(local)
                                       THEN <<"panic">> \o << <<"drop", Unwrap(local).by>> >>
                                       ELSE <<"panic">>]]
  /\ reply' = [reply EXCEPT ![Unwrap(worker[ch].cur).id] = HangUp(@)]
  /\ UNCHANGED <<lock, sender, nchan, queue, caller, ncalls, nsent, nbegun, ndone,
                 lastChange, live>>

\* camera.rs:53: unwinding reaches the local `camera`: a camera in the slot is
\* dropped, which closes the device
UnwindCamera(ch) ==
  /\ worker[ch].pc = "unwind_camera"
  /\ worker' = [worker EXCEPT ![ch] =
                  [@ EXCEPT !.pc = "unwind_receiver", !.camera = None,
                            !.ops = IF IsSome(worker[ch].camera)
                                    THEN Append(@, <<"drop", Unwrap(worker[ch].camera).by>>)
                                    ELSE @]]
  /\ UNCHANGED <<lock, sender, nchan, queue, caller, reply, ncalls, nsent, nbegun, ndone,
                 lastChange, live>>

\* the commands still in the queue of a worker
QueuedIn(ch) == {queue[ch][k].id : k \in 1..Len(queue[ch])}

\* camera.rs:52: unwinding reaches the parameter `receiver`: the Receiver is
\* dropped and with it every command still queued, each with its reply
\* Sender; from here on a send fails
UnwindReceiver(ch) ==
  /\ worker[ch].pc = "unwind_receiver"
  /\ worker' = [worker EXCEPT ![ch].pc = "dead", ![ch].ops = <<>>]
  /\ reply' = [i \in CmdIds |-> IF i \in QueuedIn(ch) THEN HangUp(reply[i]) ELSE reply[i]]
  /\ queue' = [queue EXCEPT ![ch] = <<>>]
  /\ UNCHANGED <<lock, sender, nchan, caller, ncalls, nsent, nbegun, ndone, lastChange, live>>

\* ------------------------------------------------------------ shutdown
\* The application drops its CameraState (tauri's managed state, at the end
\* of the process).  Every facade call borrows the state, so none is in
\* progress.  The Sender in the slot is dropped with it.
DropState ==
  /\ live
  /\ \A c \in Callers : caller[c].pc = "idle"
  /\ live' = FALSE
  /\ sender' = None
  /\ UNCHANGED <<lock, nchan, queue, caller, reply, ncalls, nsent, worker, nbegun, ndone,
                 lastChange>>

\* no Sender of the channel is left: not in the slot, not in a caller's hands
SendersGone(ch) ==
  /\ sender /= Some(ch)
  /\ \A c \in Callers : caller[c].tx /= Some(ch)

\* camera.rs:55: recv() returns Err once the queue is empty and every Sender
\* is gone; the while-let loop ends
RecvDisconnected(ch) ==
  /\ AtRecv(worker[ch])
  /\ queue[ch] = <<>>
  /\ SendersGone(ch)
  /\ worker' = [worker EXCEPT ![ch].pc = "cleanup"]
  /\ UNCHANGED <<lock, sender, nchan, queue, caller, reply, ncalls, nsent, nbegun, ndone,
                 lastChange, live>>

\* camera.rs:153-157: cleanup on thread exit: a camera still in the slot is
\* taken, its stream stopped, and dropped; the thread returns, which drops the
\* Receiver
Cleanup(ch) ==
  /\ worker[ch].pc = "cleanup"
  /\ \E stopped \in BOOLEAN :
       /\ IsSome(worker[ch].camera) \/ stopped
       /\ worker' = [worker EXCEPT ![ch] =
                       [TakeAndStop(@, stopped) EXCEPT !.pc = "exited"]]
  /\ UNCHANGED <<lock, sender, nchan, queue, caller, reply, ncalls, nsent, nbegun, ndone,
                 lastChange, live>>

\* ------------------------------------------------------------ specification
Next ==
  \/ \E c \in Callers : EnterFacade(c)
  \/ \E c \in Callers : \E d \in DeviceIdInputs : start_camera(c, d)
  \/ \E c \in Callers : stop_camera(c)
  \/ \E c \in Callers : get_camera_status(c)
  \/ \E c \in Callers : \E q \in QualityInputs : capture_frame(c, q)
  \/ \E c \in Callers : get_preview_frame(c)
  \/ \E c \in Callers : AcquireLock(c)
  \/ \E c \in Callers : SpawnWorker(c)
  \/ \E c \in Callers : CloneSender(c)
  \/ \E c \in Callers : ReceiveReply(c)
  \/ \E c \in Callers : ReplyTimeout(c)
  \/ \E ch \in Chans : Receive(ch)
  \/ \E ch \in Chans : StartTake(ch)
  \/ \E ch \in Chans : StartNew(ch)
  \/ \E ch \in Chans : StartOpen(ch)
  \/ \E ch \in Chans : StopTake(ch)
  \/ \E ch \in Chans : CaptureFrame(ch)
  \/ \E ch \in Chans : CaptureEncode(ch)
  \/ \E ch \in Chans : GetStatus(ch)
  \/ \E ch \in Chans : SendReply(ch)

Spec == Init /\ [][Next]_vars

\* the worker thread runs whenever it can take a step, and every call into the
\* device library returns
WorkerNext ==
  \E ch \in Chans :
    \/ Receive(ch) \/ StartTake(ch) \/ StartNew(ch) \/ StartOpen(ch) \/ StopTake(ch)
    \/ CaptureFrame(ch) \/ CaptureEncode(ch) \/ GetStatus(ch) \/ SendReply(ch)
    \/ RecvDisconnected(ch) \/ Cleanup(ch)

FairSpec == Spec /\ WF_vars(WorkerNext)

\* the runs in which the callers make no more calls than there are callers:
\* the first call of each, in every interleaving, under the same fairness
FirstCallsNext == Next /\ ncalls' <= NCallers

FirstCallsSpec == Init /\ [][FirstCallsNext]_vars /\ WF_vars(WorkerNext)

\* the steps of one front-end thread inside a facade call
CallerNext(c) ==
  \/ AcquireLock(c) \/ SpawnWorker(c) \/ CloneSender(c)
  \/ \E d \in DeviceIdInputs : start_camera(c, d)
  \/ stop_camera(c) \/ get_camera_status(c)
  \/ \E q \in QualityInputs : capture_frame(c, q)
  \/ get_preview_frame(c)
  \/ ReceiveReply(c) \/ ReplyTimeout(c)

\* the first calls of the callers, with every caller thread scheduled and its
\* recv_timeout returning at the latest when its bound has passed, and
\* nothing assumed of the worker thread: it may stop for ever at any point
StalledWorkerSpec ==
  Init /\ [][FirstCallsNext]_vars /\ \A c \in Callers : WF_vars(CallerNext(c))

\* the calls of Spec followed, once no call is in progress, by the end of
\* the process: the state is dropped, the worker drains its queue, leaves its
\* loop, cleans up and returns
ShutdownNext ==
  \/ Next
  \/ DropState
  \/ \E ch \in Chans : RecvDisconnected(ch)
  \/ \E ch \in Chans : Cleanup(ch)

ShutdownSpec == Init /\ [][ShutdownNext]_vars

\* the program when the OS may refuse the worker thread
SpawnFailNext ==
  \/ Next
  \/ \E c \in Callers : SpawnPanics(c)

SpawnFailSpec == Init /\ [][SpawnFailNext]_vars

\* the first calls of the callers when calls into the device library may
\* panic
PanicNext ==
  \/ \E c \in Callers : ncalls < NCallers /\ EnterFacade(c)
  \/ \E c \in Callers : \E d \in DeviceIdInputs : start_camera(c, d)
  \/ \E c \in Callers : stop_camera(c)
  \/ \E c \in Callers : get_camera_status(c)
  \/ \E c \in Callers : \E q \in QualityInputs : capture_frame(c, q)
  \/ \E c \in Callers : get_preview_frame(c)
  \/ \E c \in Callers : AcquireLock(c)
  \/ \E c \in Callers : SpawnWorker(c)
  \/ \E c \in Callers : CloneSender(c)
  \/ \E c \in Callers : SendFails(c)
  \/ \E c \in Callers : ReceiveReply(c)
  \/ \E c \in Callers : ReplyTimeout(c)
  \/ \E c \in Callers : ReplyHungUp(c)
  \/ \E ch \in Chans : Receive(ch)
  \/ \E ch \in Chans : StartTake(ch)
  \/ \E ch \in Chans : StartNew(ch)
  \/ \E ch \in Chans : StartOpen(ch)
  \/ \E ch \in Chans : StopTake(ch)
  \/ \E ch \in Chans : CaptureFrame(ch)
  \/ \E ch \in Chans : CaptureEncode(ch)
  \/ \E ch \in Chans : GetStatus(ch)
  \/ \E ch \in Chans : SendReply(ch)
  \/ \E ch \in Chans : WorkerPanic(ch)
  \/ \E ch \in Chans : UnwindCamera(ch)
  \/ \E ch \in Chans : UnwindReceiver(ch)

PanicSpec == Init /\ [][PanicNext]_vars

\* ------------------------------------------------------------ device index
\* Identifiers for the one Start of ParseSpec, each with the index that
\* str::parse::<u32>().unwrap_or(0) gives for it and whether it parses:
\* decimal digits with an optional leading '+' parse; the empty string, a
\* sign alone, '-', blanks, any other character and a value above u32::MAX
\* do not.
ParseCases ==
  { <<None, FALSE, 0>>,
    <<Some(<<"0">>), TRUE, 0>>,
    <<Some(<<"1">>), TRUE, 1>>,
    <<Some(<<"2">>), TRUE, 2>>,
    <<Some(<<"0", "1">>), TRUE, 1>>,
    <<Some(<<"+", "1">>), TRUE, 1>>,
    <<Some(<<"1", "0">>), TRUE, 10>>,
    <<Some(<<"2", "1", "4", "7", "4", "8", "3", "6", "4", "7">>), TRUE, 2147483647>>,
    <<Some(<<>>), FALSE, 0>>,
    <<Some(<<"x">>), FALSE, 0>>,
    <<Some(<<"+">>), FALSE, 0>>,
    <<Some(<<"-", "1">>), FALSE, 0>>,
    <<Some(<<" ", "1">>), FALSE, 0>>,
    <<Some(<<"1", " ">>), FALSE, 0>>,
    <<Some(<<"1", "x">>), FALSE, 0>>,
    <<Some(<<"1", ".", "0">>), FALSE, 0>>,
    <<Some(<<"4", "2", "9", "4", "9", "6", "7", "2", "9", "6">>), FALSE, 0>>,
    <<Some(<<"9", "9", "9", "9", "9", "9", "9", "9", "9", "9", "9">>), FALSE, 0>> }

ParseInputs == {c[1] : c \in ParseCases}

\* the first facade call of a process is start_camera with one of the
\* identifiers above; the worker handles that Start and the caller takes the
\* reply or times out
ParseNext ==
  \/ \E c \in Callers : ncalls = 0 /\ EnterFacade(c)
  \/ \E c \in Callers : AcquireLock(c)
  \/ \E c \in Callers : SpawnWorker(c)
  \/ \E c \in Callers : CloneSender(c)
  \/ \E c \in Callers : \E d \in ParseInputs : start_camera(c, d)
  \/ \E ch \in Chans : Receive(ch)
  \/ \E ch \in Chans : StartTake(ch)
  \/ \E ch \in Chans : StartNew(ch)
  \/ \E ch \in Chans : StartOpen(ch)
  \/ \E ch \in Chans : SendReply(ch)
  \/ \E c \in Callers : ReceiveReply(c)
  \/ \E c \in Callers : ReplyTimeout(c)

ParseSpec == Init /\ [][ParseNext]_vars

\* ------------------------------------------------------------ properties
Spawned(ch) == worker[ch].pc /= "unborn"
Busy(ch) == IsSome(worker[ch].cur)
BusySet == {ch \in Chans : Busy(ch)}
Cur(ch) == Unwrap(worker[ch].cur)
Result(ch) == Unwrap(worker[ch].result)

\* the worker has handled a command of this kind up to its reply, not yet sent
AtReply(ch, kind) == worker[ch].pc = "reply" /\ Cur(ch).kind = kind

\* the slot as the Start or Stop handled most recently left it
LastPost == IF IsSome(lastChange) THEN Unwrap(lastChange).post ELSE None

LastStartOk ==
  IsSome(lastChange) /\ Unwrap(lastChange).kind = "Start" /\ Unwrap(lastChange).ok
LastStartFailed ==
  IsSome(lastChange) /\ Unwrap(lastChange).kind = "Start" /\ ~Unwrap(lastChange).ok
LastStop == IsSome(lastChange) /\ Unwrap(lastChange).kind = "Stop"

IsErr(r, msg) == ~r.ok /\ r.val = msg

Range(seq) == {seq[i] : i \in 1..Len(seq)}

\* the transitions of the Closed/Open state machine: Start ends Closed or Open
\* with the camera this Start created, Stop ends Closed, Capture and GetStatus
\* end where they began
ValidTransition(cmd, pre, post) ==
  CASE cmd.kind = "Start" ->
         post = None \/ (IsSome(post) /\ Unwrap(post).by = cmd.id /\ Unwrap(post).streaming)
    [] cmd.kind = "Stop" -> post = None
    [] cmd.kind \in {"Capture", "GetStatus"} -> post = pre

\* C1: at most one command is being handled at any time, every dequeued
\* command is handled to its reply before the next is dequeued, and the slot
\* goes through one sequence of valid transitions: each command starts from
\* the slot as the previous one left it and ends in a state its kind allows.
C1_OneCommandAtATime ==
  /\ Cardinality(BusySet) <= 1
  /\ nbegun = ndone + Cardinality(BusySet)
  /\ \A ch \in Chans :
       Spawned(ch) =>
         IF Busy(ch)
         THEN /\ worker[ch].pre = LastPost
              /\ worker[ch].pc = "reply" =>
                   ValidTransition(Cur(ch), worker[ch].pre, worker[ch].camera)
         ELSE worker[ch].pc = "recv" /\ worker[ch].camera = LastPost

\* two callers have a command outstanding at once: the worker is inside the
\* device calls of one caller's Start while the other caller's command waits
\* in the queue, after an earlier command already changed the slot
C1_Witness ==
  /\ worker[1].pc = "start_open"
  /\ IsSome(lastChange)
  /\ queue[1] /= <<>>
  /\ \E c, d \in Callers :
       /\ c /= d
       /\ caller[c].pc = "wait" /\ caller[c].id = Cur(1).id
       /\ caller[d].pc = "wait" /\ caller[d].id = queue[1][1].id

\* C2 (safety part): never two workers, no sender handed out without a worker,
\* every sender leads to the queue of worker 1, and every command sent is in
\* that queue, being handled by that worker, or already replied to.
C2_SingleWorker ==
  /\ nchan <= 1
  /\ \A ch \in Chans : Spawned(ch) <=> (ch <= nchan)
  /\ IsSome(sender) => (sender = Some(1) /\ nchan = 1)
  /\ \A c \in Callers :
       /\ caller[c].pc \in {"send", "wait"} => (caller[c].tx = Some(1) /\ nchan = 1)
       /\ caller[c].pc = "clone" => nchan = 1
  /\ nsent = ndone + Cardinality(BusySet) + Len(queue[1])

\* C2 (liveness part): every command sent is eventually handled to its reply
C2_Served == \A i \in CmdIds : (nsent >= i) ~> (ndone >= i)

\* C2: N > 1 concurrent first calls spawn exactly one worker, all callers get
\* a sender to its queue, and all their commands are eventually dequeued and
\* replied to by it.
C2_ExactlyOneWorker == []C2_SingleWorker /\ C2_Served

\* two callers are inside get_or_create_sender at once before any command was
\* ever sent: one has just spawned the worker and still holds the lock, the
\* other waits for the lock
C2_Witness ==
  \E c, d \in Callers :
    /\ c /= d
    /\ nsent = 0 /\ nchan = 1
    /\ caller[c].pc = "clone" /\ lock = c
    /\ caller[d].pc = "lock"

\* C3: commands are dequeued and handled in the order they were enqueued: the
\* command being handled is the oldest not yet replied to, and the queue holds
\* the later ones in enqueue order, none skipped.
C3_Fifo ==
  \A ch \in Chans :
    /\ Busy(ch) => Cur(ch).id = ndone + 1
    /\ \A j \in 1..Len(queue[ch]) : queue[ch][j].id = nbegun + j

\* after an earlier command was replied to, the worker handles the older of
\* two outstanding commands of different kinds from different callers while
\* the newer one waits in the queue
C3_Witness ==
  /\ ndone >= 1
  /\ Busy(1) /\ queue[1] /= <<>>
  /\ Cur(1).kind /= queue[1][1].kind
  /\ Cur(1).id < queue[1][1].id
  /\ \E c, d \in Callers :
       c /= d /\ caller[c].id = Cur(1).id /\ caller[d].id = queue[1][1].id

\* C4: a command whose caller timed out is not cancelled: until the worker has
\* handled it, it stays in the queue or in the worker's hands; once handled,
\* its transition stands (the undeliverable reply changes nothing: the worker
\* is back at recv() with the slot as the command left it), and a GetStatus
\* handled afterwards reports that slot: a timed-out Start that succeeded is
\* reported active, with the status that Start computed.
C4_TimeoutDoesNotCancel ==
  /\ \A i \in CmdIds :
       reply[i].st = "dropped" =>
         \E ch \in Chans :
           \/ Busy(ch) /\ Cur(ch).id = i
           \/ \E j \in 1..Len(queue[ch]) : queue[ch][j].id = i
  /\ \A ch \in Chans :
       /\ (Spawned(ch) /\ ~Busy(ch)) => (worker[ch].pc = "recv" /\ worker[ch].camera = LastPost)
       /\ (AtReply(ch, "GetStatus") /\ IsSome(lastChange) /\ Unwrap(lastChange).lost) =>
            /\ Result(ch).ok
            /\ Result(ch).val.is_active = IsSome(Unwrap(lastChange).post)
            /\ LastStartOk => Result(ch).val = Unwrap(Unwrap(lastChange).status)

\* a GetStatus is answered active after a Start that succeeded although its
\* caller had timed out before the reply was sent
C4_Witness ==
  /\ AtReply(1, "GetStatus")
  /\ LastStartOk /\ Unwrap(lastChange).lost
  /\ Result(1).ok /\ Result(1).val.is_active

\* P3 of a CameraStatus value
Consistent(st) == st.is_active = (IsSome(st.device_name) /\ IsSome(st.resolution))

StatusKinds == {"Start", "GetStatus"}

\* C5: every CameraStatus the worker is about to send, and every one lying in
\* a reply channel for its caller, as the success result of Start or of
\* GetStatus, has is_active exactly when device_name and resolution are both
\* present.
C5_StatusConsistent ==
  /\ \A ch \in Chans :
       (worker[ch].pc = "reply" /\ Cur(ch).kind \in StatusKinds /\ Result(ch).ok) =>
         Consistent(Result(ch).val)
  /\ \A i \in CmdIds :
       (reply[i].st = "full" /\ reply[i].kind \in StatusKinds /\ reply[i].val.ok) =>
         Consistent(reply[i].val.val)

\* an active status (from a Start) and an inactive one (from a GetStatus) lie
\* in the reply channels of two callers
C5_Witness ==
  \E i, j \in CmdIds :
    /\ reply[i].st = "full" /\ reply[i].kind = "Start" /\ reply[i].val.ok
    /\ reply[i].val.val.is_active
    /\ reply[j].st = "full" /\ reply[j].kind = "GetStatus" /\ reply[j].val.ok
    /\ ~reply[j].val.val.is_active

\* C6: a Capture dequeued while the slot is empty goes straight from the slot
\* test to its reply, makes no device call and no conversion, replies the
\* not-started error and leaves the slot empty.
C6_CaptureWhenClosed ==
  \A ch \in Chans :
    (Busy(ch) /\ Cur(ch).kind = "Capture" /\ worker[ch].pre = None) =>
      /\ worker[ch].pc \in {"capture_frame", "reply"}
      /\ worker[ch].ops = <<>>
      /\ worker[ch].camera = None
      /\ worker[ch].pc = "reply" => IsErr(Result(ch), "Camera not started")

\* a Capture is answered with the not-started error after a Stop closed an
\* open camera
C6_Witness ==
  /\ AtReply(1, "Capture") /\ worker[1].pre = None
  /\ IsErr(Result(1), "Camera not started")
  /\ LastStop /\ IsSome(Unwrap(lastChange).prior)

\* C7: every Stop, handled with the slot empty or full and whatever
\* stop_stream returned, replies Ok(()) and leaves the slot empty.
C7_StopIdempotent ==
  \A ch \in Chans :
    AtReply(ch, "Stop") =>
      /\ Result(ch).ok /\ Result(ch).val = Unit
      /\ worker[ch].camera = None

\* a second Stop in a row is answered Ok with the slot empty, after a first
\* Stop closed an open camera
C7_Witness ==
  /\ AtReply(1, "Stop") /\ worker[1].pre = None /\ Result(1).ok
  /\ LastStop /\ IsSome(Unwrap(lastChange).prior)

\* C8: a successful Start, whether or not it replaces an open camera, leaves
\* in the slot the camera it created and no other: a camera open before was
\* taken out, stopped and dropped first.  Until the next Start or Stop is
\* handled the slot keeps that camera, and every GetStatus handled in between
\* reports is_active with that camera's name and resolution, the same status
\* the Start returned.
C8_StartSupersedes ==
  /\ \A ch \in Chans :
       (AtReply(ch, "Start") /\ Result(ch).ok) =>
         LET w == worker[ch]
         IN /\ IsSome(w.camera) /\ Unwrap(w.camera).by = Cur(ch).id
            /\ Unwrap(w.camera).idx = SelectIndex(Cur(ch).device_id)
            /\ w.camera /= w.pre
            /\ Result(ch).val.is_active
            /\ Result(ch).val.device_name = Some(HumanName(Unwrap(w.camera).idx))
            /\ Result(ch).val.resolution = Some(ResolutionOf(Unwrap(w.camera).idx))
            /\ IsSome(w.pre) =>
                 /\ w.ops[1][1] = "stop_stream" /\ w.ops[1][2] = Unwrap(w.pre).by
                 /\ w.ops[2] = <<"drop", Unwrap(w.pre).by>>
                 /\ w.ops[3] = <<"new", Cur(ch).id>>
  /\ LastStartOk =>
       LET h == Unwrap(lastChange)
       IN \A ch \in Chans :
            /\ (Spawned(ch) /\ (~Busy(ch) \/ Cur(ch).kind \in {"GetStatus", "Capture"})) =>
                 worker[ch].camera = h.post
            /\ AtReply(ch, "GetStatus") =>
                 /\ Result(ch).ok /\ Result(ch).val = Unwrap(h.status)
                 /\ Result(ch).val.is_active
                 /\ Result(ch).val.device_name = Some(HumanName(Unwrap(h.post).idx))
                 /\ Result(ch).val.resolution = Some(ResolutionOf(Unwrap(h.post).idx))

\* a GetStatus is answered with device 1's status after a successful Start for
\* device 1 replaced the open camera of device 0
C8_Witness ==
  /\ AtReply(1, "GetStatus")
  /\ LastStartOk
  /\ Unwrap(lastChange).prior = Some(0)
  /\ Unwrap(Unwrap(lastChange).post).idx = 1
  /\ Result(1).val.device_name = Some(HumanName(1))

StartErrors == {"Failed to create camera", "Failed to open camera stream"}

\* C9: a Start that fails, in either state, replies one of the two Start
\* errors and leaves the slot empty and no camera half made; until the next
\* Start or Stop is handled the slot stays empty, a GetStatus reports the
\* inactive status and a Capture the not-started error.
C9_FailedStartClosed ==
  /\ \A ch \in Chans :
       (AtReply(ch, "Start") /\ ~Result(ch).ok) =>
         /\ Result(ch).val \in StartErrors
         /\ worker[ch].camera = None /\ worker[ch].cam = None
  /\ LastStartFailed =>
       \A ch \in Chans :
         /\ (Spawned(ch) /\ (~Busy(ch) \/ Cur(ch).kind \in {"GetStatus", "Capture"})) =>
              worker[ch].camera = None
         /\ AtReply(ch, "GetStatus") =>
              /\ Result(ch).ok /\ ~Result(ch).val.is_active
              /\ Result(ch).val.device_name = None /\ Result(ch).val.resolution = None
         /\ AtReply(ch, "Capture") => IsErr(Result(ch), "Camera not started")

\* a GetStatus is answered inactive after a Start failed that was handled
\* while a camera was open
C9_Witness ==
  /\ AtReply(1, "GetStatus")
  /\ LastStartFailed /\ IsSome(Unwrap(lastChange).prior)
  /\ Result(1).ok /\ ~Result(1).val.is_active

\* the device calls a command made on the camera that was in the slot when it
\* was dequeued
TouchedPrior(pre, ops) ==
  {op \in Range(ops) : op[1] \in {"stop_stream", "drop"} /\ op[2] = Unwrap(pre).by}

\* C10 as claimed: a failing Start leaves a camera that was open before it in
\* the slot, neither stopped nor dropped.
C10_Original ==
  \A ch \in Chans :
    (AtReply(ch, "Start") /\ ~Result(ch).ok /\ IsSome(worker[ch].pre)) =>
      /\ worker[ch].camera = worker[ch].pre
      /\ TouchedPrior(worker[ch].pre, worker[ch].ops) = {}

\* C10 as amended: a failing Start stores no camera.  Handled with the slot
\* empty it stops and drops nothing.  Handled with a camera open, that camera
\* was taken out of the slot, its stream stopped and the camera dropped before
\* the new camera was attempted, and the failure does not put it back.
C10_FailedStartPriorHandle ==
  \A ch \in Chans :
    (AtReply(ch, "Start") /\ ~Result(ch).ok) =>
      LET w == worker[ch]
      IN /\ w.camera = None
         /\ IF IsSome(w.pre)
            THEN /\ Len(w.ops) >= 3
                 /\ w.ops[1][1] = "stop_stream" /\ w.ops[1][2] = Unwrap(w.pre).by
                 /\ w.ops[2] = <<"drop", Unwrap(w.pre).by>>
                 /\ w.ops[3][1] \in {"new", "new_failed"}
            ELSE /\ w.ops[1][1] \in {"new", "new_failed"}
                 /\ \A op \in Range(w.ops) : op[1] = "drop" => op[2] = Cur(ch).id
                 /\ \A op \in Range(w.ops) : op[1] /= "stop_stream"

\* a Start whose open_stream failed is about to reply, after it stopped and
\* dropped the camera that was open when it was dequeued
C10_Witness ==
  /\ AtReply(1, "Start") /\ IsSome(worker[1].pre)
  /\ IsErr(Result(1), "Failed to open camera stream")
  /\ worker[1].camera = None

\* the errors of a Capture that reached the device
CaptureErrors == {"Failed to capture frame", "Failed to decode frame", "Failed to encode JPEG"}

\* the reply channel of command i holds a Capture result that is one of the
\* device errors, not yet received by its caller
FailedCaptureIn(i) ==
  /\ i \in CmdIds
  /\ reply[i].st = "full" /\ reply[i].kind = "Capture"
  /\ ~reply[i].val.ok /\ reply[i].val.val \in CaptureErrors

\* C11: a Capture dequeued with a camera in the slot, whatever its outcome,
\* leaves that same camera in the slot with its stream open; when frame
\* acquisition, decoding or encoding fails its result is the matching error
\* and it made no stop, drop, new or open call.  A GetStatus handled right
\* after a Capture that failed on the device reports the active status of the
\* camera that the last Start or Stop left in the slot.
C11_FailedCaptureKeepsOpen ==
  \A ch \in Chans :
    /\ (Busy(ch) /\ Cur(ch).kind = "Capture" /\ IsSome(worker[ch].pre)) =>
         LET w == worker[ch]
         IN /\ w.camera = w.pre
            /\ Unwrap(w.camera).streaming
            /\ \A op \in Range(w.ops) :
                 op[1] \in {"frame", "frame_failed", "decode", "decode_failed",
                            "encode", "encode_failed"}
            /\ (w.pc = "reply" /\ ~Result(ch).ok) =>
                 /\ Result(ch).val \in CaptureErrors
                 /\ w.ops[Len(w.ops)][1] \in {"frame_failed", "decode_failed", "encode_failed"}
    /\ (AtReply(ch, "GetStatus") /\ FailedCaptureIn(Cur(ch).id - 1)) =>
         /\ worker[ch].camera = LastPost
         /\ IsSome(worker[ch].camera)
         /\ Result(ch) = Ok(ActiveStatus(Unwrap(LastPost)))
         /\ LastStartOk /\ Result(ch).val = Unwrap(Unwrap(lastChange).status)

\* a GetStatus is answered active, with the status the Start returned, right
\* after a Capture on the open camera failed in decoding or encoding; the
\* caller of that Capture has not yet taken its error
C11_Witness ==
  /\ AtReply(1, "GetStatus")
  /\ FailedCaptureIn(Cur(1).id - 1)
  /\ reply[Cur(1).id - 1].val.val \in {"Failed to decode frame", "Failed to encode JPEG"}
  /\ Result(1).ok /\ Result(1).val.is_active

\* the Camera values a worker thread holds: the one in its slot and the one
\* its Start has created and not yet stored or dropped
HandlesOf(w) ==
  (IF IsSome(w.camera) THEN {Unwrap(w.camera).by} ELSE {}) \cup
  (IF IsSome(w.cam) THEN {Unwrap(w.cam).by} ELSE {})
HandleCount(w) ==
  (IF IsSome(w.camera) THEN 1 ELSE 0) + (IF IsSome(w.cam) THEN 1 ELSE 0)
\* the Camera values held by all worker threads together
SumHandles(S) ==
  Cardinality({ch \in S : IsSome(worker[ch].camera)}) +
  Cardinality({ch \in S : IsSome(worker[ch].cam)})

\* C13: at no time is there more than one Camera value, in any slot or in the
\* hands of a Start.  A Start dequeued with a camera in the slot has, before
\* any call for the new device, taken that camera out of the slot, called
\* stop_stream on it and dropped it; whether stop_stream succeeded or failed
\* the Start goes on to Camera::new for its own device.  A worker thread that
\* has returned, at the end of the process, holds none.
C13_AtMostOneHandle ==
  /\ SumHandles(Chans) <= 1
  /\ \A ch \in Chans : worker[ch].pc = "exited" => HandleCount(worker[ch]) = 0
  /\ \A ch \in Chans :
       (Busy(ch) /\ Cur(ch).kind = "Start" /\ IsSome(worker[ch].pre)) =>
         LET w == worker[ch]
             old == Unwrap(w.pre).by
         IN IF w.pc = "start_take"
            THEN w.camera = w.pre /\ w.cam = None /\ w.ops = <<>>
            ELSE /\ w.camera /= w.pre
                 /\ Len(w.ops) >= 2
                 /\ w.ops[1][1] = "stop_stream" /\ w.ops[1][2] = old
                 /\ w.ops[2] = <<"drop", old>>
                 /\ \A k \in 3..Len(w.ops) : w.ops[k][2] = Cur(ch).id
                 /\ w.pc = "start_new" => (Len(w.ops) = 2 /\ HandleCount(w) = 0)
                 /\ w.pc \in {"start_open", "reply"} =>
                      (Len(w.ops) >= 3 /\ w.ops[3][1] \in {"new", "new_failed"})

\* a Start has replaced the open camera by its own although stop_stream on the
\* old camera failed
C13_Witness ==
  /\ AtReply(1, "Start") /\ IsSome(worker[1].pre)
  /\ worker[1].ops[1] = <<"stop_stream", Unwrap(worker[1].pre).by, FALSE>>
  /\ Result(1).ok
  /\ HandlesOf(worker[1]) = {Cur(1).id}

\* C15: while a GetStatus is handled the slot holds what it held when the
\* command was dequeued, no camera is being created and no device call was
\* made; its result is Ok: inactive without name and resolution when the slot
\* is empty, active with the name and resolution of the stored camera when it
\* is not.
C15_GetStatusReadOnly ==
  \A ch \in Chans :
    (Busy(ch) /\ Cur(ch).kind = "GetStatus") =>
      LET w == worker[ch]
      IN /\ w.camera = w.pre
         /\ w.cam = None
         /\ w.ops = <<>>
         /\ w.pc \in {"get_status", "reply"}
         /\ w.pc = "reply" =>
              /\ Result(ch).ok
              /\ IF IsSome(w.pre)
                 THEN /\ Result(ch).val.is_active
                      /\ Result(ch).val.device_name = Some(HumanName(Unwrap(w.pre).idx))
                      /\ Result(ch).val.resolution = Some(ResolutionOf(Unwrap(w.pre).idx))
                      /\ Unwrap(w.camera).streaming
                 ELSE Result(ch).val =
                        [is_active |-> FALSE, device_name |-> None, resolution |-> None]

\* a GetStatus handled with a camera open is about to reply active, while the
\* inactive answer to an earlier GetStatus, handled before the Start, still
\* waits in its reply channel
C15_Witness ==
  /\ AtReply(1, "GetStatus") /\ IsSome(worker[1].pre)
  /\ worker[1].camera = worker[1].pre
  /\ Result(1).val.is_active
  /\ \E i \in CmdIds :
       /\ reply[i].st = "full" /\ reply[i].kind = "GetStatus"
       /\ ~reply[i].val.val.is_active

\* C16: in every step, a registry slot that holds a sender holds the same
\* sender afterwards and no channel or worker is created; a channel is created
\* only by a step that finds the slot empty and fills it; after every step
\* each sender a caller was handed is the one in the slot, and there is at
\* most one channel and one spawned worker.  The mutex of a slot that holds
\* a sender is never poisoned, so a call leaves get_or_create_sender with
\* the lock error instead of a sender only while the slot is empty, after a
\* spawn that failed; and such a slot stays empty.
C16_SlotNeverReset ==
  [][/\ IsSome(sender) => (sender' = sender /\ nchan' = nchan /\ lock' /= Poisoned)
     /\ lock' = Poisoned => (sender' = None /\ nchan' = 0)
     /\ \A c \in Callers :
          (caller[c].pc = "lock" /\ caller'[c].pc = "idle") =>
            (sender = None /\ lock = Poisoned)
     /\ nchan' /= nchan => (sender = None /\ sender' = Some(nchan'))
     /\ \A c \in Callers : IsSome(caller'[c].tx) => caller'[c].tx = sender'
     /\ nchan' <= 1
     /\ Cardinality({ch \in Chans : worker'[ch].pc /= "unborn"}) = nchan']_vars

\* a caller was handed the sender of the first and only channel after a
\* Start on it had failed and that Start's caller had timed out
C16_Witness ==
  /\ \E c \in Callers : caller[c].pc = "send" /\ caller[c].tx = Some(1)
  /\ sender = Some(1) /\ nchan = 1
  /\ LastStartFailed /\ Unwrap(lastChange).lost

\* a facade call that has sent command i has returned: its caller took the
\* reply or gave up on it
CallReturned(i) == reply[i].st \in {"dropped", "closed"}

\* the reply of command i has not been sent yet
Unanswered(i) == reply[i].st \in {"empty", "dropped"}

\* C19: a call that sends its command gives it a place behind every command
\* sent before, so behind the command of every call that had returned, with a
\* reply or with the timeout error, before this call was made; the worker
\* handles a command only when every earlier one has been answered, and starts
\* it from the slot as the last Start or Stop left it.  So a Stop handled
\* after a Start whose caller timed out finds the camera that Start opened and
\* leaves the slot empty.
C19_RealTimeOrder ==
  /\ [][\A c \in Callers :
          (caller[c].pc = "send" /\ caller'[c].pc = "wait") =>
            LET j == caller'[c].id
                ch == Unwrap(caller[c].tx)
            IN /\ \A i \in CmdIds : (reply[i].st /= "none") => i < j
               /\ Len(queue'[ch]) = Len(queue[ch]) + 1
               /\ queue'[ch][Len(queue'[ch])].id = j
               /\ \A k \in 1..Len(queue[ch]) : queue'[ch][k] = queue[ch][k]]_vars
  /\ [](\A ch \in Chans :
          Busy(ch) =>
            /\ \A i \in CmdIds : Unanswered(i) => i >= Cur(ch).id
            /\ \A i \in CmdIds : (CallReturned(i) /\ i /= Cur(ch).id /\ Unanswered(i)) =>
                 \E k \in 1..Len(queue[ch]) : queue[ch][k].id = i
            /\ worker[ch].pre = LastPost
            /\ (AtReply(ch, "Stop") /\ LastStartOk /\ Unwrap(lastChange).lost) =>
                 (IsSome(worker[ch].pre) /\ worker[ch].camera = None))

\* caller 1 timed out on its Start, returned, and then called stop_camera:
\* the worker has handled the Start, which opened a camera, and after it the
\* Stop, which found that camera and closed it
C19_Witness ==
  /\ ncalls = 2 /\ nsent = 2
  /\ caller[1].pc = "wait" /\ caller[1].id = 2
  /\ caller[2].pc = "idle"
  /\ AtReply(1, "Stop") /\ Cur(1).id = 2
  /\ LastStartOk /\ Unwrap(lastChange).lost
  /\ IsSome(worker[1].pre) /\ worker[1].camera = None

\* the index the claim gives for an identifier of ParseCases, and whether the
\* identifier is one that does not parse
ExpectedIndex(d) == (CHOOSE c \in ParseCases : c[1] = d)[3]
Unparseable(d) == IsSome(d) /\ ~(CHOOSE c \in ParseCases : c[1] = d)[2]

\* C20: the camera a Start creates is for index 0 when there is no
\* identifier, for the identifier's value when it parses as a u32, and for
\* index 0 when it does not parse.  The Start's result is then the active
\* status of that camera or one of the two device errors, never an error
\* about the identifier: with an identifier that does not parse the index,
\* the device calls and the possible results are those of a Start with no
\* identifier.
C20_DeviceIndex ==
  \A ch \in Chans :
    (Busy(ch) /\ Cur(ch).kind = "Start") =>
      LET w == worker[ch]
          d == Cur(ch).device_id
          e == ExpectedIndex(d)
      IN /\ SelectIndex(d) = e
         /\ Unparseable(d) => SelectIndex(d) = SelectIndex(None)
         /\ IsSome(w.cam) => Unwrap(w.cam).idx = e
         /\ \A op \in Range(w.ops) :
              op[1] \in {"new", "new_failed", "open_stream", "open_failed", "drop"}
         /\ w.pc = "reply" =>
              IF Result(ch).ok
              THEN /\ w.camera = Some([Handle(e, Cur(ch).id) EXCEPT !.streaming = TRUE])
                   /\ Result(ch).val = ActiveStatus(Handle(e, Cur(ch).id))
                   /\ Unparseable(d) =>
                        Result(ch).val = ActiveStatus(Handle(SelectIndex(None), Cur(ch).id))
              ELSE /\ Result(ch).val \in StartErrors
                   /\ w.camera = None

\* a Start with the identifier "1x" has opened the camera of index 0 and
\* replies with its active status
C20_Witness ==
  /\ AtReply(1, "Start")
  /\ Cur(1).device_id = Some(<<"1", "x">>)
  /\ Result(1).ok
  /\ Unwrap(worker[1].camera).idx = 0
  /\ Result(1).val.device_name = Some(HumanName(0))

\* the values of the type a command kind's reply channel carries
ResultTypeOk(kind, r) ==
  CASE kind \in {"Start", "GetStatus"} ->
         IF r.ok THEN Consistent(r.val) ELSE r.val \in StartErrors
    [] kind = "Stop" -> r = Ok(Unit)
    [] kind = "Capture" ->
         IF r.ok THEN r.val[1] = "data:image/jpeg;base64,"
         ELSE r.val \in CaptureErrors \cup {"Camera not started"}

\* C18: every send of a command creates a reply channel that did not exist
\* and touches no other; a reply channel gets a value only from the worker
\* at the reply of the command the channel was created with, the value is
\* that command's result, and a channel that has been given a value or was
\* closed is never given one again; a caller leaves its wait only by taking
\* the value out of the channel of the command it sent, or by dropping that
\* channel while it is empty, and touches no other channel.  At all times the
\* callers that wait do so on different channels, each made for the command
\* its caller sent, and a value in a channel has the type of that command's
\* result.
C18_OwnReplyChannel ==
  /\ [][/\ \A c \in Callers :
             (caller[c].pc = "send" /\ caller'[c].pc = "wait") =>
               LET j == caller'[c].id
               IN /\ reply[j].st = "none" /\ reply'[j].st = "empty"
                  /\ \A i \in CmdIds \ {j} : reply'[i] = reply[i]
        /\ \A i \in CmdIds :
             /\ (reply'[i].st = "full" /\ reply[i].st /= "full") =>
                  /\ reply[i].st = "empty"
                  /\ \E ch \in Chans :
                       /\ worker[ch].pc = "reply" /\ Cur(ch).id = i
                       /\ worker'[ch].pc = "recv"
                       /\ reply'[i].val = Result(ch)
                       /\ reply'[i].kind = Cur(ch).kind
             /\ reply[i].st = "full" => reply'[i] \in {reply[i], ClosedReply}
             /\ reply[i].st = "closed" => reply'[i] = reply[i]
        /\ \A ch \in Chans :
             (worker[ch].pc = "reply" /\ worker'[ch].pc = "recv") =>
               /\ reply[Cur(ch).id].st \in {"empty", "dropped"}
               /\ reply'[Cur(ch).id].st \in {"full", "closed"}
               /\ \A i \in CmdIds \ {Cur(ch).id} : reply'[i] = reply[i]
               /\ ndone' = ndone + 1
        /\ \A c \in Callers :
             (caller[c].pc = "wait" /\ caller'[c].pc /= "wait") =>
               LET i == caller[c].id
               IN /\ \/ reply[i].st = "full" /\ reply'[i] = ClosedReply
                     \/ reply[i].st = "empty" /\ reply'[i].st = "dropped"
                  /\ \A k \in CmdIds \ {i} : reply'[k] = reply[k]
                  /\ caller'[c] = IdleCaller]_vars
  /\ [](/\ \A c, d \in Callers :
             (c /= d /\ caller[c].pc = "wait" /\ caller[d].pc = "wait") =>
               caller[c].id /= caller[d].id
        /\ \A c \in Callers :
             caller[c].pc = "wait" =>
               (caller[c].id \in 1..nsent /\ reply[caller[c].id].st \in {"empty", "full"})
        /\ \A i \in CmdIds :
             /\ reply[i].st = "full" => ResultTypeOk(reply[i].kind, reply[i].val)
             /\ reply[i].st \in {"empty", "full"} =>
                  \E c \in Callers : caller[c].pc = "wait" /\ caller[c].id = i)

\* caller 1 gave up on its first call and waits on the channel of its second
\* call, a command of another kind; the worker is about to send the result of
\* the first command on the channel that caller dropped
C18_Witness ==
  /\ caller[1].pc = "wait" /\ caller[1].id = 2
  /\ reply[1].st = "dropped" /\ reply[2].st = "empty"
  /\ worker[1].pc = "reply" /\ Cur(1).id = 1
  /\ reply[1].kind /= reply[2].kind

\* the worker is at the reply of a command that ended in an error, or whose
\* caller has dropped the reply channel
FailingReply(ch) ==
  /\ worker[ch].pc = "reply"
  /\ (~Result(ch).ok \/ reply[Cur(ch).id].st = "dropped")

\* a command has ended in an error or found its caller gone: one is at its
\* reply now, or the last Start or Stop was one
FailureSeen ==
  \/ \E ch \in Chans : FailingReply(ch)
  \/ IsSome(lastChange) /\ (~Unwrap(lastChange).ok \/ Unwrap(lastChange).lost)

\* C14: the step that sends a reply, whatever the result and whether or not
\* its receiver still exists, sends once, takes the worker back to recv()
\* with its slot and its queue as they are; a spawned worker is always at
\* recv() or inside one command; and with the worker thread scheduled and the
\* device calls returning, every command that is sent and not yet answered,
\* a failure having happened, is answered.
C14_FailureKeepsWorker ==
  /\ [][\A ch \in Chans :
          (worker[ch].pc = "reply" /\ worker'[ch] /= worker[ch]) =>
            /\ worker'[ch].pc = "recv"
            /\ worker'[ch].camera = worker[ch].camera
            /\ worker'[ch].cur = None
            /\ queue' = queue
            /\ ndone' = ndone + 1
            /\ reply'[Cur(ch).id].st \in {"full", "closed"}]_vars
  /\ [](\A ch \in Chans :
          Spawned(ch) =>
            /\ worker[ch].pc \in {"recv", "start_take", "start_new", "start_open", "stop_take",
                                  "capture_frame", "capture_encode", "get_status", "reply"}
            /\ worker[ch].pc = "recv" <=> ~Busy(ch))
  /\ \A j \in CmdIds :
       (nsent >= j /\ ndone < j /\ FailureSeen) ~> (ndone >= j)

\* the worker has handled a second command to its reply after a Start that
\* failed and whose caller had timed out
C14_Witness ==
  /\ worker[1].pc = "reply" /\ Cur(1).id = 2
  /\ LastStartFailed /\ Unwrap(lastChange).lost
  /\ ndone = 1

\* C17: the mutex of the registry slot is held exactly by a caller that is
\* between its lock() and the end of get_or_create_sender, never by one that
\* sends or waits; a caller that waits has its own reply channel to wait on;
\* and with the caller threads scheduled and nothing assumed of the worker,
\* every facade call that was entered returns.
C17_CallsReturn ==
  /\ [](\A c \in Callers :
          /\ lock = c <=> caller[c].pc \in {"create", "clone"}
          /\ caller[c].pc \in {"idle", "lock", "create", "clone", "send", "wait"}
          /\ caller[c].pc = "wait" => reply[caller[c].id].st \in {"empty", "full"})
  /\ \A c \in Callers : (caller[c].pc /= "idle") ~> (caller[c].pc = "idle")

\* caller 1 has returned from its call with the timeout error while the
\* worker is still inside that call's Start, and caller 2 waits for a
\* command that is queued behind it
C17_Witness ==
  /\ caller[1].pc = "idle"
  /\ worker[1].pc = "start_open" /\ Cur(1).id = 1
  /\ reply[1].st = "dropped"
  /\ caller[2].pc = "wait" /\ caller[2].id = 2
  /\ Len(queue[1]) = 1

SendErrors == {"Failed to send command: sending on a closed channel"}
TimeoutErrors ==
  {"Camera command timeout: timed out waiting on channel",
   "Camera command timeout: channel is empty and sending half is closed"}

\* C12: a call leaves its send for its return, without a command enqueued,
\* only when the Receiver of its channel is gone, the worker thread having
\* unwound to its end, and what it returns is the send error, which is none
\* of the timeout errors and none of the worker's errors; a call that goes on
\* to wait has sent to a channel whose Receiver exists, be it in the hands
\* of a worker that is already unwinding.  A
\* call that leaves its wait returns the worker's result when its reply
\* channel holds one, and that is never a timeout or send error; it returns a
\* timeout error only when its reply channel holds no result: the bound
\* passed with the channel empty, or the reply Sender was dropped unused.
C12_SendErrorDistinct ==
  [][\A c \in Callers :
       /\ (caller[c].pc = "send" /\ caller'[c].pc = "idle") =>
            /\ worker[Unwrap(caller[c].tx)].pc = "dead"
            /\ IsSome(SendOutcome(c))
            /\ ~Unwrap(SendOutcome(c)).ok
            /\ Unwrap(SendOutcome(c)).val \in SendErrors
            /\ Unwrap(SendOutcome(c)).val \notin
                 TimeoutErrors \cup StartErrors \cup CaptureErrors \cup {"Camera not started"}
            /\ nsent' = nsent /\ queue' = queue /\ reply' = reply
       /\ (caller[c].pc = "send" /\ caller'[c].pc = "wait") =>
            /\ worker[Unwrap(caller[c].tx)].pc \notin {"dead", "exited", "unborn"}
            /\ SendOutcome(c) = None
       /\ (caller[c].pc = "wait" /\ caller'[c].pc = "idle") =>
            LET r == reply[caller[c].id]
                v == WaitOutcome(c)
            IN /\ r.st \in {"full", "empty", "hungup"}
               /\ r.st = "full" =>
                    (v = r.val /\ (~v.ok => v.val \notin TimeoutErrors \cup SendErrors))
               /\ r.st /= "full" =>
                    (~v.ok /\ v.val \in TimeoutErrors /\ v.val \notin SendErrors)
               /\ (~v.ok /\ v.val \in TimeoutErrors) => r.st \in {"empty", "hungup"}]_vars

\* the worker thread is gone; of two calls one sent its command while the
\* worker lived and the other found the channel closed at its send and
\* returned without sending
C12_Witness ==
  /\ worker[1].pc = "dead"
  /\ ncalls = 2 /\ nsent = 1
  /\ \A c \in Callers : caller[c].pc = "idle"

====
